---- MODULE Spec2Model ----
(***************************************************************************)
(* State-machine model of focusSafely (@react-aria/focus) together with    *)
(* its shared IntersectionObserver, the transition-completion scheduler    *)
(* it defers work to, and the host document it reads.                      *)
(***************************************************************************)
EXTENDS Integers, Sequences, FiniteSets, TLC

\* ------------------------------------------------------------------ bounds
\* Number of focusSafely invocations explored in one behaviour.
MaxCalls == 2
\* Number of steps other code (focus changes, removals, modality changes) takes.
MaxEnvSteps == 2
\* Number of press and key events delivered to one menu item.
MaxMenuEvents == 3

\* ------------------------------------------------------- the host document
\* Three focusable elements: B is a child of A, C is unrelated to both.
Elements == {"A", "B", "C"}
\* document.body, the value of document.activeElement when nothing is focused.
Body == "body"
\* document.activeElement may also be null (lib.dom: Element | null).
Null == "null"
\* The values getInteractionModality() returns.
Modalities == {"pointer", "keyboard", "virtual", "other"}

\* parentNode of every element while it is in its place in the tree.
Parent == [e \in Elements |-> IF e = "B" THEN "A" ELSE Body]

VARIABLES
    modality,              \* what getInteractionModality() returns now
    activeElement,         \* document.activeElement
    removed,               \* elements whose subtree was taken out of the document
    intersectionObserver,  \* TRUE: the observer was constructed; FALSE: undefined
    observed,              \* elements the observer is observing
    scrollPending,         \* runAfterTransition callbacks of the observer callback
    pending,               \* runAfterTransition callbacks of focusSafely (closures)
    ncalls,                \* focusSafely invocations so far
    envSteps,              \* steps other code has taken so far
    last,                  \* what the step just taken did
    item,                  \* useMenuItem: the props and menu state of one render
    pressed,               \* pointer type of the press in progress, or Null
    pressStartCalls,       \* onActionCalls when the latest press started
    onCloseCalls,          \* calls of the menu's onClose handler so far
    onActionCalls,         \* calls of the menu's onAction handler so far
    menuEvents,            \* events delivered to the menu item so far
    menuLast,              \* what the menu item's handler just did
    pc,                    \* main(): the await it is suspended at
    action,                \* main(): answer to 'What would you like to do?'
    template,              \* main(): the selected template
    projectName,           \* main(): the project directory
    selectedComponents,    \* main(): the components to copy
    includedFeatures,      \* main(): the features to include
    componentsCopied,      \* copyComponents has finished
    packageJsonCopied,     \* copyPackageJson has finished
    install,               \* the child process running npm install
    printed,               \* console.log output so far
    exited                 \* process.exit(0) was called

focusVars == <<modality, activeElement, removed, intersectionObserver, observed,
               scrollPending, pending, ncalls, envSteps, last>>

menuVars == <<item, pressed, pressStartCalls, onCloseCalls, onActionCalls,
              menuEvents, menuLast>>

cliVars == <<pc, action, template, projectName, selectedComponents,
             includedFeatures, componentsCopied, packageJsonCopied, install,
             printed, exited>>

vars == <<modality, activeElement, removed, intersectionObserver, observed,
          scrollPending, pending, ncalls, envSteps, last,
          item, pressed, pressStartCalls, onCloseCalls, onActionCalls,
          menuEvents, menuLast,
          pc, action, template, projectName, selectedComponents,
          includedFeatures, componentsCopied, packageJsonCopied, install,
          printed, exited>>

\* x.contains(y): y is an inclusive descendant of x in the current tree.
RECURSIVE Contains(_, _)
Contains(x, y) ==
    IF x = y THEN TRUE
    ELSE IF y \notin Elements THEN FALSE
    ELSE IF y \in removed THEN FALSE
    ELSE Contains(x, Parent[y])

\* document.contains(element)
DocumentContains(e) == Contains(Body, e)

\* ------------------------------------------------------------- focusSafely
\* if (modality === 'virtual') { runAfterTransition(...) }
DefersNever(m) == FALSE
DefersKeyboardToo(m) == m \in {"virtual", "keyboard"}
Defers(m) == m = "virtual"

\* else { focusWithoutScrolling(element); ... }
FocusesNowAlways(m) == TRUE
FocusesNowPointerOnly(m) == m = "pointer"
FocusesNow(m) == m # "virtual"

\* focusWithoutScrolling(element): element.focus({preventScroll: true}); the
\* host moves focus only to an element that is in the document.
focusWithoutScrolling(element, active) ==
    IF DocumentContains(element) THEN element ELSE active

\* document.activeElement === lastFocusedElement && document.contains(element)
GuardIgnoresFocus(c) == DocumentContains(c.element)
GuardIgnoresDocument(c) == activeElement = c.lastFocusedElement
GuardComparesTarget(c) == activeElement # c.element /\ DocumentContains(c.element)
StalenessGuard(c) ==
    /\ activeElement = c.lastFocusedElement
    /\ DocumentContains(c.element)

\* lastFocusedElement.contains(element) || element.contains(lastFocusedElement)
\*   || element === lastFocusedElement
Related(lastFocused, element) ==
    \/ Contains(lastFocused, element)
    \/ Contains(element, lastFocused)
    \/ element = lastFocused

\* The condition of the if statement that guards observe() in the else branch.
ShouldObserveAlways(m, lastFocused, element) == intersectionObserver
ShouldObserveNoCheck(m, lastFocused, element) ==
    m # "pointer" \/ (lastFocused # Null /\ ~Related(lastFocused, element))
ShouldObserveUnrelatedOnly(m, lastFocused, element) ==
    /\ intersectionObserver
    /\ lastFocused # Null /\ ~Related(lastFocused, element)
ShouldObserve(m, lastFocused, element) ==
    /\ intersectionObserver
    /\ \/ m # "pointer"
       \/ (lastFocused # Null /\ ~Related(lastFocused, element))

\* Evaluating that condition dereferences lastFocusedElement: with the observer
\* present and pointer modality, a null lastFocusedElement raises a TypeError.
Raises(m, lastFocused) ==
    /\ intersectionObserver
    /\ m = "pointer"
    /\ lastFocused = Null

\* if (intersectionObserver) { intersectionObserver.observe(element); }
ObservesInContinuationNever == FALSE
ObservesInContinuationRereads == intersectionObserver /\ modality = "virtual"
ObservesInContinuation == intersectionObserver

\* Every waiting closure notes that document.activeElement changed.
NoteFocusChange(cs, newActive) ==
    [i \in DOMAIN cs |->
        IF newActive # activeElement THEN [cs[i] EXCEPT !.interim = TRUE] ELSE cs[i]]

\* The sequence cs without its i-th member.
RemoveAt(cs, i) == [j \in 1..(Len(cs) - 1) |-> IF j < i THEN cs[j] ELSE cs[j + 1]]

\* The record of a step; the steps of focusSafely fill in what they did.
Event(op) ==
    [op |-> op, modality |-> Null, element |-> Null, lastFocusedElement |-> Null,
     before |-> Null, deferred |-> FALSE, go |-> FALSE, focusCalls |-> 0, registered |-> FALSE,
     raised |-> FALSE, interim |-> FALSE, entries |-> {}, visible |-> {},
     scrolls |-> {}]

\* One invocation of focusSafely(element). Callers pass an element that is in
\* the document at call time; it may leave the document afterwards.
focusSafely(element) ==
    /\ ncalls < MaxCalls
    /\ DocumentContains(element)
    /\ LET m == modality
           lastFocusedElement == activeElement
           now == FocusesNow(m)
           newActive == IF now THEN focusWithoutScrolling(element, activeElement)
                        ELSE activeElement
           raises == now /\ Raises(m, lastFocusedElement)
           obs == now /\ ~raises /\ ShouldObserve(m, lastFocusedElement, element)
           closure == [modality |-> m,
                       element |-> element,
                       lastFocusedElement |-> lastFocusedElement,
                       focusCalls |-> IF now THEN 1 ELSE 0,
                       interim |-> FALSE]
       IN /\ activeElement' = newActive
          /\ observed' = IF obs THEN observed \cup {element} ELSE observed
          /\ pending' = IF Defers(m)
                        THEN Append(NoteFocusChange(pending, newActive), closure)
                        ELSE NoteFocusChange(pending, newActive)
          /\ last' = [Event("call") EXCEPT
                         !.modality = m,
                         !.before = activeElement,
                         !.deferred = Defers(m),
                         !.element = element,
                         !.lastFocusedElement = lastFocusedElement,
                         !.focusCalls = closure.focusCalls,
                         !.registered = obs,
                         !.raised = raises]
    /\ ncalls' = ncalls + 1
    /\ UNCHANGED <<modality, removed, intersectionObserver, scrollPending, envSteps>>
    /\ UNCHANGED menuVars
    /\ UNCHANGED cliVars

\* The i-th callback focusSafely handed to runAfterTransition runs.
Continuation(i) ==
    /\ i \in DOMAIN pending
    /\ LET c == pending[i]
           go == StalenessGuard(c)
           newActive == IF go THEN focusWithoutScrolling(c.element, activeElement)
                        ELSE activeElement
           obs == go /\ ObservesInContinuation
       IN /\ activeElement' = newActive
          /\ observed' = IF obs THEN observed \cup {c.element} ELSE observed
          /\ pending' = NoteFocusChange(RemoveAt(pending, i), newActive)
          /\ last' = [Event("continuation") EXCEPT
                         !.modality = c.modality,
                         !.before = activeElement,
                         !.element = c.element,
                         !.lastFocusedElement = c.lastFocusedElement,
                         !.go = go,
                         !.focusCalls = c.focusCalls + (IF go THEN 1 ELSE 0),
                         !.registered = obs,
                         !.interim = c.interim]
    /\ UNCHANGED <<modality, removed, intersectionObserver, scrollPending, ncalls,
                   envSteps>>
    /\ UNCHANGED menuVars
    /\ UNCHANGED cliVars

\* ------------------------------------------------ intersectionObserverCallback
\* if (!entry.isIntersecting) runAfterTransition(() => entry.target.scrollIntoView(...))
SchedulesScrollInverted(isIntersecting) == isIntersecting
SchedulesScrollAlways(isIntersecting) == TRUE
SchedulesScroll(isIntersecting) == ~isIntersecting

\* The scrollIntoView call is the body of the arrow function handed to
\* runAfterTransition: the observer callback itself scrolls nothing.
ScrollsNowWhenHidden(isIntersecting) == ~isIntersecting
ScrollsNow(isIntersecting) == FALSE

\* observer.unobserve(entry.target)
UnobservesNothing(entries) == {}
Unobserves(entries) == entries

\* The host delivers entries for a set of observed elements; visible holds the
\* elements reported with isIntersecting = true.
intersectionObserverCallback(entries, visible) ==
    /\ entries # {}
    /\ entries \subseteq observed
    /\ visible \subseteq entries
    /\ \A e \in visible : DocumentContains(e)
    /\ scrollPending' = [e \in Elements |->
            IF e \in entries /\ SchedulesScroll(e \in visible)
            THEN scrollPending[e] + 1 ELSE scrollPending[e]]
    /\ observed' = observed \ Unobserves(entries)
    /\ last' = [Event("report") EXCEPT
                   !.entries = entries,
                   !.visible = visible,
                   !.scrolls = {e \in entries : ScrollsNow(e \in visible)}]
    /\ UNCHANGED <<modality, activeElement, removed, intersectionObserver,
                   pending, ncalls, envSteps>>
    /\ UNCHANGED menuVars
    /\ UNCHANGED cliVars

\* () => entry.target.scrollIntoView(scrollIntoViewOptions), run by the
\* transition-completion scheduler.
ScrollIntoView(e) ==
    /\ scrollPending[e] > 0
    /\ scrollPending' = [scrollPending EXCEPT ![e] = @ - 1]
    /\ last' = [Event("scroll") EXCEPT !.element = e, !.scrolls = {e}]
    /\ UNCHANGED <<modality, activeElement, removed, intersectionObserver,
                   observed, pending, ncalls, envSteps>>
    /\ UNCHANGED menuVars
    /\ UNCHANGED cliVars

\* ------------------------------------------------------------ environment
\* The interaction tracker records another kind of user interaction.
SetModality(m) ==
    /\ envSteps < MaxEnvSteps
    /\ m # modality
    /\ modality' = m
    /\ envSteps' = envSteps + 1
    /\ last' = Event("env")
    /\ UNCHANGED <<activeElement, removed, intersectionObserver, observed,
                   scrollPending, pending, ncalls>>
    /\ UNCHANGED menuVars
    /\ UNCHANGED cliVars

\* Other code focuses an element of the document, or blurs the focused one.
OtherFocus(x) ==
    /\ envSteps < MaxEnvSteps
    /\ x # activeElement
    /\ x \in Elements => DocumentContains(x)
    /\ activeElement' = x
    /\ pending' = NoteFocusChange(pending, x)
    /\ envSteps' = envSteps + 1
    /\ last' = Event("env")
    /\ UNCHANGED <<modality, removed, intersectionObserver, observed,
                   scrollPending, ncalls>>
    /\ UNCHANGED menuVars
    /\ UNCHANGED cliVars

\* Other code removes the subtree of e from the document; the host moves
\* focus to the body when the focused element leaves the document.
Remove(e) ==
    /\ envSteps < MaxEnvSteps
    /\ e \notin removed
    /\ removed' = removed \cup {e}
    /\ LET newActive == IF activeElement \in Elements /\ Contains(e, activeElement)
                        THEN Body ELSE activeElement
       IN /\ activeElement' = newActive
          /\ pending' = NoteFocusChange(pending, newActive)
    /\ envSteps' = envSteps + 1
    /\ last' = Event("env")
    /\ UNCHANGED <<modality, intersectionObserver, observed, scrollPending, ncalls>>
    /\ UNCHANGED menuVars
    /\ UNCHANGED cliVars

\* Other code puts a removed subtree back where it was.
Insert(e) ==
    /\ envSteps < MaxEnvSteps
    /\ e \in removed
    /\ removed' = removed \ {e}
    /\ envSteps' = envSteps + 1
    /\ last' = Event("env")
    /\ UNCHANGED <<modality, activeElement, intersectionObserver, observed,
                   scrollPending, pending, ncalls>>
    /\ UNCHANGED menuVars
    /\ UNCHANGED cliVars

\* ------------------------------------------------------------ useMenuItem
\* closeOnSelect?: boolean
CloseOnSelectValues == {"undefined", "true", "false"}
\* state.selectionManager.selectionMode
SelectionModes == {"none", "single", "multiple"}
\* PressEvent.pointerType
PointerTypes == {"mouse", "touch", "keyboard"}
\* KeyboardEvent.key: Space, Enter, and one key the item does not handle.
Keys == {" ", "Enter", "ArrowDown"}

\* What one render of useMenuItem reads from its props and the menu state.
Items ==
    [closeOnSelect : CloseOnSelectValues,
     selectionMode : SelectionModes,
     isTrigger : BOOLEAN,      \* !!props['aria-haspopup']
     isDisabled : BOOLEAN,     \* props.isDisabled ?? state.disabledKeys.has(key)
     isExpanded : BOOLEAN,     \* state.expandedKeys.has(key)
     hasOnClose : BOOLEAN,     \* props.onClose || data.onClose
     hasOnAction : BOOLEAN]    \* props.onAction || data.onAction

\* Variant: an omitted closeOnSelect counts as true.
CloseOnPressDefaultTrue(it) == it.closeOnSelect # "false"

\* closeOnSelect ?? state.selectionManager.selectionMode !== 'multiple'
CloseOnPress(it) ==
    IF it.closeOnSelect = "undefined" THEN it.selectionMode # "multiple"
    ELSE it.closeOnSelect = "true"

\* Variant: a trigger keeps the menu's handler.
CallsOnActionOfTrigger(it) == it.hasOnAction

\* onAction(key) reaches the menu's handler: a trigger gets () => {} instead.
CallsOnAction(it) == ~it.isTrigger /\ it.hasOnAction

\* onPressStart: if (e.pointerType === 'keyboard' && onAction) onAction(key)
PressStartActs(it, pointerType) == pointerType = "keyboard" /\ CallsOnAction(it)

\* Variant: press up calls onAction for every pointer type.
PressUpActsAlways(it, pointerType) == CallsOnAction(it)

\* onPressUp: if (e.pointerType !== 'keyboard') { if (onAction) onAction(key) ... }
PressUpActs(it, pointerType) == pointerType # "keyboard" /\ CallsOnAction(it)

\* onPressUp: if (!isTrigger && onClose && (closeOnSelect ?? ...)) onClose()
PressUpCloses(it, pointerType) ==
    /\ pointerType # "keyboard"
    /\ ~it.isTrigger
    /\ it.hasOnClose
    /\ CloseOnPress(it)

\* Variant: Space closes like Enter, in every selection mode.
KeyDownClosesSpaceAsEnter(it, key, repeat) ==
    /\ ~repeat
    /\ ~it.isDisabled
    /\ it.closeOnSelect # "false"
    /\ ~it.isTrigger
    /\ it.hasOnClose
    /\ key \in {"Enter", " "}

\* Variant: the e.repeat test is missing.
KeyDownClosesOnRepeat(it, key, repeat) ==
    /\ ~it.isDisabled
    /\ it.closeOnSelect # "false"
    /\ ~it.isTrigger
    /\ it.hasOnClose
    /\ \/ key = "Enter"
       \/ key = " " /\ it.selectionMode = "none"

\* onKeyDown: the switch on e.key after the e.repeat test.
KeyDownCloses(it, key, repeat) ==
    /\ ~repeat
    /\ ~it.isDisabled
    /\ it.closeOnSelect # "false"
    /\ ~it.isTrigger
    /\ it.hasOnClose
    /\ \/ key = "Enter"
       \/ key = " " /\ it.selectionMode = "none"

\* onKeyDown: e.continuePropagation() for a repeating event and in the default case.
KeyDownPropagates(key, repeat) == repeat \/ key \notin {" ", "Enter"}

\* if (selectionMode !== 'none' && !isTrigger) ariaProps['aria-checked'] = isSelected
AriaCheckedExposed(it) == it.selectionMode # "none" /\ ~it.isTrigger

\* usePress({..., isDisabled: isDisabled || (isTrigger && state.expandedKeys.has(key))})
PressDisabled(it) == it.isDisabled \/ (it.isTrigger /\ it.isExpanded)

\* The record of one handler run.
MenuEvent(op) ==
    [op |-> op, pointerType |-> Null, key |-> Null, repeat |-> FALSE,
     closed |-> FALSE, acted |-> FALSE, propagated |-> FALSE]

onPressStart(pointerType) ==
    /\ menuEvents < MaxMenuEvents
    /\ ~PressDisabled(item)
    /\ pressed = Null
    /\ pressed' = pointerType
    /\ pressStartCalls' = onActionCalls
    /\ onActionCalls' = onActionCalls + (IF PressStartActs(item, pointerType) THEN 1 ELSE 0)
    /\ menuLast' = [MenuEvent("pressStart") EXCEPT
                       !.pointerType = pointerType,
                       !.acted = PressStartActs(item, pointerType)]
    /\ menuEvents' = menuEvents + 1
    /\ UNCHANGED <<item, onCloseCalls>>
    /\ UNCHANGED focusVars
    /\ UNCHANGED cliVars

onPressUp(pointerType) ==
    /\ menuEvents < MaxMenuEvents
    /\ ~PressDisabled(item)
    /\ pressed = pointerType
    /\ pressed' = Null
    /\ onActionCalls' = onActionCalls + (IF PressUpActs(item, pointerType) THEN 1 ELSE 0)
    /\ onCloseCalls' = onCloseCalls + (IF PressUpCloses(item, pointerType) THEN 1 ELSE 0)
    /\ menuLast' = [MenuEvent("pressUp") EXCEPT
                       !.pointerType = pointerType,
                       !.acted = PressUpActs(item, pointerType),
                       !.closed = PressUpCloses(item, pointerType)]
    /\ menuEvents' = menuEvents + 1
    /\ UNCHANGED <<item, pressStartCalls>>
    /\ UNCHANGED focusVars
    /\ UNCHANGED cliVars

onKeyDown(key, repeat) ==
    /\ menuEvents < MaxMenuEvents
    /\ onCloseCalls' = onCloseCalls + (IF KeyDownCloses(item, key, repeat) THEN 1 ELSE 0)
    /\ menuLast' = [MenuEvent("keyDown") EXCEPT
                       !.key = key,
                       !.repeat = repeat,
                       !.closed = KeyDownCloses(item, key, repeat),
                       !.propagated = KeyDownPropagates(key, repeat)]
    /\ menuEvents' = menuEvents + 1
    /\ UNCHANGED <<item, pressed, pressStartCalls, onActionCalls>>
    /\ UNCHANGED focusVars
    /\ UNCHANGED cliVars

\* -------------------------------------------------------- scaffolding CLI
\* The choices of the first prompt.
Actions == {"Create a new library", "Add components"}
\* readTemplates(): the template directories.
Templates == {"starter", "tailwind"}
\* Answers to 'What is your project named?'
ProjectNames == {"my-component-library", "ui"}
\* readComponents(template): the components of a template.
Components == {"Button", "Select"}
\* features.map((f) => f.value)
Features == {"Tests", "Stories", "Docs"}
\* The states of the child process started by exec.
InstallStates == {"none", "running", "finished", "failed"}

\* if (selected.includes('All')) selected = all
ExpandAll(selected, all) == IF "All" \in selected THEN all ELSE selected

\* action === 'Create a new library'
CreatesLibrary(a) == a = "Create a new library"

\* action === 'Create a new library' && includedFeatures.includes('Stories')
StorybookHint(a, features) == CreatesLibrary(a) /\ "Stories" \in features

\* The console.log calls from the docs link to process.exit(0).
Epilogue(a, features) ==
    IF StorybookHint(a, features) THEN <<"docs", "storybook">> ELSE <<"docs">>

\* const {action} = await prompts({... name: 'action' ...})
PromptAction(a) ==
    /\ pc = "action"
    /\ action' = a
    /\ pc' = "template"
    /\ UNCHANGED <<template, projectName, selectedComponents, includedFeatures,
                   componentsCopied, packageJsonCopied, install, printed, exited>>
    /\ UNCHANGED focusVars
    /\ UNCHANGED menuVars

\* const {template} = await prompts(...); without a new library the project
\* directory is '.' and the next await is the components prompt.
PromptTemplate(t) ==
    /\ pc = "template"
    /\ template' = t
    /\ IF CreatesLibrary(action)
       THEN pc' = "projectName" /\ UNCHANGED projectName
       ELSE pc' = "components" /\ projectName' = "."
    /\ UNCHANGED <<action, selectedComponents, includedFeatures,
                   componentsCopied, packageJsonCopied, install, printed, exited>>
    /\ UNCHANGED focusVars
    /\ UNCHANGED menuVars

\* projectName = response.projectName
PromptProjectName(name) ==
    /\ pc = "projectName"
    /\ projectName' = name
    /\ pc' = "components"
    /\ UNCHANGED <<action, template, selectedComponents, includedFeatures,
                   componentsCopied, packageJsonCopied, install, printed, exited>>
    /\ UNCHANGED focusVars
    /\ UNCHANGED menuVars

\* let {selectedComponents} = await prompts(...)
PromptComponents(selected) ==
    /\ pc = "components"
    /\ selectedComponents' = ExpandAll(selected, Components)
    /\ pc' = "features"
    /\ UNCHANGED <<action, template, projectName, includedFeatures,
                   componentsCopied, packageJsonCopied, install, printed, exited>>
    /\ UNCHANGED focusVars
    /\ UNCHANGED menuVars

\* let {includedFeatures} = await prompts(...); copyComponents is started.
PromptFeatures(selected) ==
    /\ pc = "features"
    /\ includedFeatures' = ExpandAll(selected, Features)
    /\ pc' = "copyComponents"
    /\ UNCHANGED <<action, template, projectName, selectedComponents,
                   componentsCopied, packageJsonCopied, install, printed, exited>>
    /\ UNCHANGED focusVars
    /\ UNCHANGED menuVars

\* await copyComponents(...) resolves. For a new library copyPackageJson is
\* started; otherwise main runs to process.exit(0) without another await.
CopyComponentsDone ==
    /\ pc = "copyComponents"
    /\ componentsCopied' = TRUE
    /\ IF CreatesLibrary(action)
       THEN /\ pc' = "copyPackageJson"
            /\ UNCHANGED <<printed, exited>>
       ELSE /\ pc' = "exit"
            /\ printed' = printed \o <<"added">> \o Epilogue(action, includedFeatures)
            /\ exited' = TRUE
    /\ UNCHANGED <<action, template, projectName, selectedComponents,
                   includedFeatures, packageJsonCopied, install>>
    /\ UNCHANGED focusVars
    /\ UNCHANGED menuVars

\* await copyPackageJson(...) resolves; main logs, calls exec without waiting
\* for the child process, logs the success message and the hints, and exits.
CopyPackageJsonDone ==
    /\ pc = "copyPackageJson"
    /\ packageJsonCopied' = TRUE
    /\ install' = "running"
    /\ printed' = printed \o <<"creating", "initializing", "installing", "success">>
                          \o Epilogue(action, includedFeatures)
    /\ exited' = TRUE
    /\ pc' = "exit"
    /\ UNCHANGED <<action, template, projectName, selectedComponents,
                   includedFeatures, componentsCopied>>
    /\ UNCHANGED focusVars
    /\ UNCHANGED menuVars

\* The child process started by exec ends, with or without success; exec was
\* given no callback, so nothing in main observes it.
InstallEnds(outcome) ==
    /\ install = "running"
    /\ install' = outcome
    /\ UNCHANGED <<pc, action, template, projectName, selectedComponents,
                   includedFeatures, componentsCopied, packageJsonCopied,
                   printed, exited>>
    /\ UNCHANGED focusVars
    /\ UNCHANGED menuVars

\* ------------------------------------------------------------ specification
\* The document, the observer and the scheduler before any focusSafely call.
FocusInit ==
    /\ modality \in Modalities
    /\ activeElement \in Elements \cup {Body, Null}
    /\ removed = {}
    /\ intersectionObserver \in BOOLEAN
    /\ observed = {}
    /\ scrollPending = [e \in Elements |-> 0]
    /\ pending = <<>>
    /\ ncalls = 0
    /\ envSteps = 0
    /\ last = Event("init")

\* A rendered menu item before any event.
MenuInit ==
    /\ item \in Items
    /\ pressed = Null
    /\ pressStartCalls = 0
    /\ onCloseCalls = 0
    /\ onActionCalls = 0
    /\ menuEvents = 0
    /\ menuLast = MenuEvent("init")

\* No menu item is rendered.
NoMenu ==
    /\ item = [closeOnSelect |-> "undefined", selectionMode |-> "none",
               isTrigger |-> FALSE, isDisabled |-> FALSE, isExpanded |-> FALSE,
               hasOnClose |-> FALSE, hasOnAction |-> FALSE]
    /\ pressed = Null
    /\ pressStartCalls = 0
    /\ onCloseCalls = 0
    /\ onActionCalls = 0
    /\ menuEvents = 0
    /\ menuLast = MenuEvent("init")

\* main() before its first prompt is answered.
CliInit ==
    /\ pc = "action"
    /\ action = Null
    /\ template = Null
    /\ projectName = Null
    /\ selectedComponents = {}
    /\ includedFeatures = {}
    /\ componentsCopied = FALSE
    /\ packageJsonCopied = FALSE
    /\ install = "none"
    /\ printed = <<>>
    /\ exited = FALSE

\* Nothing asks for a focus move.
NoFocus ==
    /\ modality = "pointer"
    /\ activeElement = Body
    /\ removed = {}
    /\ intersectionObserver = TRUE
    /\ observed = {}
    /\ scrollPending = [e \in Elements |-> 0]
    /\ pending = <<>>
    /\ ncalls = 0
    /\ envSteps = 0
    /\ last = Event("init")

Init == FocusInit /\ NoMenu /\ CliInit

Next ==
    \/ \E element \in Elements : focusSafely(element)
    \/ \E i \in 1..MaxCalls : Continuation(i)
    \/ \E entries \in SUBSET Elements : \E visible \in SUBSET entries :
          intersectionObserverCallback(entries, visible)
    \/ \E e \in Elements : ScrollIntoView(e)
    \/ \E m \in Modalities : SetModality(m)
    \/ \E x \in Elements \cup {Body} : OtherFocus(x)
    \/ \E e \in Elements : Remove(e)
    \/ \E e \in Elements : Insert(e)

Spec == Init /\ [][Next]_vars

\* The host delivers a report for e, alone or together with others.
ReportFor(e) ==
    \E entries \in SUBSET Elements : \E visible \in SUBSET entries :
        e \in entries /\ intersectionObserverCallback(entries, visible)

\* The host's observer delivers a first report for every element it observes.
FairSpec == Spec /\ \A e \in Elements : WF_vars(ReportFor(e))

MenuNext ==
    \/ \E pointerType \in PointerTypes : onPressStart(pointerType)
    \/ \E pointerType \in PointerTypes : onPressUp(pointerType)
    \/ \E key \in Keys : \E repeat \in BOOLEAN : onKeyDown(key, repeat)

\* A rendered menu item in a page where nothing asks for a focus move.
MenuStart == NoFocus /\ MenuInit /\ CliInit

MenuSpec == MenuStart /\ [][MenuNext]_vars

CliNext ==
    \/ \E a \in Actions : PromptAction(a)
    \/ \E t \in Templates : PromptTemplate(t)
    \/ \E name \in ProjectNames : PromptProjectName(name)
    \/ \E selected \in SUBSET (Components \cup {"All"}) : PromptComponents(selected)
    \/ \E selected \in SUBSET (Features \cup {"All"}) : PromptFeatures(selected)
    \/ CopyComponentsDone
    \/ CopyPackageJsonDone
    \/ \E outcome \in {"finished", "failed"} : InstallEnds(outcome)

\* One run of the CLI, with no page and no menu item.
CliStart == NoFocus /\ NoMenu /\ CliInit

CliSpec == CliStart /\ [][CliNext]_vars

TypeOK ==
    /\ modality \in Modalities
    /\ activeElement \in Elements \cup {Body, Null}
    /\ removed \subseteq Elements
    /\ intersectionObserver \in BOOLEAN
    /\ observed \subseteq Elements
    /\ Len(pending) <= MaxCalls
    /\ ncalls <= MaxCalls
    /\ item \in Items
    /\ pressed \in PointerTypes \cup {Null}
    /\ action \in Actions \cup {Null}
    /\ template \in Templates \cup {Null}
    /\ projectName \in ProjectNames \cup {".", Null}
    /\ selectedComponents \subseteq Components
    /\ includedFeatures \subseteq Features
    /\ install \in InstallStates
    /\ exited \in BOOLEAN

\* ------------------------------------------------------------------ claims
\* C1: in pointer, keyboard and other modality, the state right after
\* focusSafely(target) has target focused, the focus primitive was invoked in
\* the call itself and nothing was deferred.
C1_SyncFocus ==
    (last.op = "call" /\ last.modality # "virtual") =>
        /\ activeElement = last.element
        /\ last.focusCalls = 1
        /\ ~last.deferred

C1_Witness ==
    /\ last.op = "call"
    /\ last.modality = "keyboard"
    /\ last.before = "A"
    /\ last.element = "C"
    /\ activeElement = "C"

\* C2: in virtual modality the call leaves the focused element as it was, and
\* as long as its callback waits for the transition-completion signal the focus
\* primitive has not been invoked for it; only the callback's own step invokes it.
C2_VirtualDeferred ==
    /\ (last.op = "call" /\ last.modality = "virtual") =>
          /\ activeElement = last.before
          /\ last.focusCalls = 0
          /\ last.deferred
    /\ \A i \in DOMAIN pending :
          /\ pending[i].modality = "virtual"
          /\ pending[i].focusCalls = 0

C2_Witness ==
    /\ last.op = "call"
    /\ last.modality = "virtual"
    /\ last.before = "A"
    /\ last.element = "B"
    /\ activeElement = "A"
    /\ Len(pending) = 1

\* C3 (as claimed): the deferred callback moves focus to another element only
\* if no focus change at all occurred between the call and the run of the
\* callback, also not one that has been undone since.
C3_NoInterimChange ==
    (last.op = "continuation" /\ last.focusCalls > 0 /\ activeElement # last.before) =>
        ~last.interim

\* C3 (amended): the deferred callback moves focus only if, when it runs, the
\* focused element is the one captured at call time and target is in the document.
C3_SnapshotCompare ==
    (last.op = "continuation" /\ last.focusCalls > 0) =>
        /\ last.before = last.lastFocusedElement
        /\ DocumentContains(last.element)
        /\ activeElement = last.element

C3_Witness ==
    /\ last.op = "continuation"
    /\ last.focusCalls = 1
    /\ last.interim
    /\ last.before = "A"
    /\ activeElement = "B"

\* C4: when another element than the captured one is focused at the time the
\* callback runs, the callback leaves focus where it is and the call has not
\* invoked the focus primitive at all.
C4_SupersededStaysPut ==
    (last.op = "continuation" /\ last.before # last.lastFocusedElement) =>
        /\ activeElement = last.before
        /\ last.focusCalls = 0

C4_Witness ==
    /\ last.op = "continuation"
    /\ last.lastFocusedElement = "A"
    /\ last.element = "B"
    /\ last.before = "C"
    /\ activeElement = "C"

\* C5: when target is out of the document at the time the callback runs, the
\* callback leaves focus where it is, does not invoke the focus primitive and
\* does not register target with the observer.
C5_DetachedTargetSkipped ==
    (last.op = "continuation" /\ ~DocumentContains(last.element)) =>
        /\ activeElement = last.before
        /\ last.focusCalls = 0
        /\ ~last.registered

C5_Witness ==
    /\ last.op = "continuation"
    /\ last.lastFocusedElement = "A"
    /\ last.element = "B"
    /\ ~DocumentContains("B")
    /\ last.before = "A"
    /\ activeElement = "A"
    /\ intersectionObserver

\* C6: no step of focusSafely raises an error to its caller.
C6_NeverRaises == ~last.raised

\* C7: in pointer modality, when the previously focused element contains
\* target, is contained in it or is target, the call focuses target and does
\* not call observe.
C7_PointerRelatedSkips ==
    (/\ last.op = "call"
     /\ last.modality = "pointer"
     /\ last.lastFocusedElement # Null
     /\ Related(last.lastFocusedElement, last.element)) =>
        /\ activeElement = last.element
        /\ ~last.registered

C7_Witness ==
    /\ last.op = "call"
    /\ last.modality = "pointer"
    /\ last.lastFocusedElement = "A"
    /\ last.element = "B"
    /\ activeElement = "B"
    /\ intersectionObserver

\* C8: a report step schedules one scroll correction for every element it
\* reports as not intersecting and none for the others, those elements leave
\* the observed set in the same step, and no other step schedules a correction.
C8_OneCorrection ==
    [][\A e \in Elements :
          IF last'.op = "report" /\ e \in last'.entries \ last'.visible
          THEN scrollPending'[e] = scrollPending[e] + 1 /\ e \notin observed'
          ELSE scrollPending'[e] <= scrollPending[e]]_vars

C8_Witness ==
    /\ ncalls = 1
    /\ envSteps = 0
    /\ modality = "pointer"
    /\ activeElement = "C"
    /\ last.op = "report"
    /\ last.entries = {"C"}
    /\ last.visible = {}
    /\ scrollPending["C"] = 1
    /\ "C" \notin observed

\* C9: without the observer nothing is ever observed, no correction is ever
\* scheduled, nothing is raised, and focus moves as the modality prescribes.
C9_NoObserverDegrades ==
    ~intersectionObserver =>
        /\ observed = {}
        /\ \A e \in Elements : scrollPending[e] = 0
        /\ ~last.raised
        /\ ~last.registered
        /\ last.op \notin {"report", "scroll"}
        /\ (last.op = "call" /\ last.modality # "virtual") =>
              activeElement = last.element
        /\ (last.op = "call" /\ last.modality = "virtual") =>
              activeElement = last.before
        /\ last.op = "continuation" =>
              IF last.before = last.lastFocusedElement /\ DocumentContains(last.element)
              THEN activeElement = last.element /\ last.focusCalls = 1
              ELSE activeElement = last.before /\ last.focusCalls = 0

C9_Witness ==
    /\ ~intersectionObserver
    /\ last.op = "call"
    /\ last.modality = "pointer"
    /\ last.lastFocusedElement = "A"
    /\ last.element = "C"
    /\ activeElement = "C"

\* C10: one invocation invokes the focus primitive at most once, the call and
\* its callback taken together: a call that invoked it deferred nothing.
C10_FocusAtMostOnce ==
    /\ last.focusCalls <= 1
    /\ last.op = "call" => ~(last.deferred /\ last.focusCalls > 0)
    /\ \A i \in DOMAIN pending : pending[i].focusCalls <= 1

C10_Witness ==
    /\ last.op = "continuation"
    /\ last.focusCalls = 1
    /\ ~last.interim
    /\ last.lastFocusedElement = last.element

\* C11 (as claimed): the observer never has more than one element under
\* observation.
C11_AtMostOneObserved == Cardinality(observed) <= 1

\* C11 (amended): every invocation whose focus move has happened accounts for
\* at most one observed element, so the observed set is never larger than the
\* number of invocations that are no longer waiting; it can hold several elements.
C11_OnePerInvocation ==
    /\ Cardinality(observed) <= ncalls - Len(pending)
    /\ (last.op \in {"call", "continuation"} /\ last.registered) => last.element \in observed

C11_Witness ==
    /\ observed = {"A", "C"}
    /\ ncalls = 2
    /\ pending = <<>>
    /\ last.op = "call"

\* C12: the step that handles a report takes every reported element out of the
\* observed set, intersecting or not, and reports are delivered for observed
\* elements only.
C12_FireOnce ==
    [][last'.op = "report" =>
          /\ last'.entries \subseteq observed
          /\ last'.entries \cap observed' = {}
          /\ observed' = observed \ last'.entries]_vars

C12_Witness ==
    /\ last.op = "report"
    /\ last.entries = {"A", "C"}
    /\ last.visible = {"A"}
    /\ observed = {}

\* C13: the observer is what its one construction made it in every later
\* state, and while it is absent no step registers an element.
C13_ConstructedOnce ==
    [][/\ intersectionObserver' = intersectionObserver
       /\ ~intersectionObserver => (~last'.registered /\ observed' = observed)]_vars

C13_Witness ==
    /\ ~intersectionObserver
    /\ ncalls = 2
    /\ last.op = "call"
    /\ last.modality = "keyboard"
    /\ activeElement = last.element
    /\ observed = {}

\* C14: an item whose closeOnSelect prop is omitted calls onClose on exactly
\* the events on which the same item with closeOnSelect = true calls it.
C14_DefaultIsTrue ==
    item.closeOnSelect = "undefined" =>
        LET explicit == [item EXCEPT !.closeOnSelect = "true"]
        IN /\ menuLast.op = "pressUp" =>
                 menuLast.closed = PressUpCloses(explicit, menuLast.pointerType)
           /\ menuLast.op = "keyDown" =>
                 menuLast.closed = KeyDownCloses(explicit, menuLast.key, menuLast.repeat)


\* C15: with the observer present, a keyboard or other call registers target
\* whatever its relation to the previously focused element, and a pointer call
\* registers it when the two are unrelated.
C15_RegistersTarget ==
    (/\ last.op = "call"
     /\ intersectionObserver
     /\ \/ last.modality \in {"keyboard", "other"}
        \/ /\ last.modality = "pointer"
           /\ last.lastFocusedElement # Null
           /\ ~Related(last.lastFocusedElement, last.element)) =>
        /\ last.registered
        /\ last.element \in observed

C15_Witness ==
    /\ last.op = "call"
    /\ intersectionObserver
    /\ last.modality = "keyboard"
    /\ last.lastFocusedElement = "A"
    /\ last.element = "B"
    /\ "B" \in observed

\* C16: when a virtual callback runs with the captured element still focused
\* and target in the document, the step ends with target focused and, if the
\* observer exists, registered, whatever the relation of the two elements.
C16_VirtualMoveRegisters ==
    (/\ last.op = "continuation"
     /\ last.before = last.lastFocusedElement
     /\ DocumentContains(last.element)) =>
        /\ activeElement = last.element
        /\ last.focusCalls = 1
        /\ intersectionObserver => (last.registered /\ last.element \in observed)

C16_Witness ==
    /\ last.op = "continuation"
    /\ intersectionObserver
    /\ last.lastFocusedElement = "A"
    /\ last.element = "B"
    /\ activeElement = "B"
    /\ "B" \in observed

\* C17: a report of an intersecting element schedules and performs no scroll
\* for it; the step only takes the element out of the observed set.
C17_VisibleNoCorrection ==
    [][last'.op = "report" =>
          /\ \A e \in last'.visible :
                /\ scrollPending'[e] = scrollPending[e]
                /\ e \notin last'.scrolls
                /\ e \notin observed'
          /\ UNCHANGED <<activeElement, pending, modality, removed>>]_vars

C17_Witness ==
    /\ last.op = "report"
    /\ last.entries = {"C"}
    /\ last.visible = {"C"}
    /\ \A e \in Elements : scrollPending[e] = 0
    /\ observed = {}

\* C18: the report step performs no scroll and has the reported elements
\* unobserved; a scroll is performed only by a later step of its own, for a
\* correction that was scheduled before that step.
C18_ScrollDeferred ==
    [][/\ last'.op = "report" =>
             (last'.scrolls = {} /\ last'.entries \cap observed' = {})
       /\ last'.scrolls # {} =>
             /\ last'.op = "scroll"
             /\ last'.scrolls = {last'.element}
             /\ scrollPending[last'.element] > 0
             /\ scrollPending'[last'.element] = scrollPending[last'.element] - 1]_vars

C18_Witness ==
    /\ last.op = "scroll"
    /\ last.scrolls = {"C"}
    /\ scrollPending["C"] = 0
    /\ "C" \notin observed

\* C19: a virtual callback whose guard fails leaves the focused element, the
\* observed set and the scheduled scroll corrections as they were.
C19_StaleChangesNothing ==
    [][(/\ last'.op = "continuation"
        /\ ~(/\ activeElement = last'.lastFocusedElement
             /\ DocumentContains(last'.element))) =>
          UNCHANGED <<activeElement, observed, scrollPending>>]_vars

C19_Witness ==
    /\ last.op = "continuation"
    /\ ~last.go
    /\ intersectionObserver
    /\ last.before = Body
    /\ last.lastFocusedElement = "B"
    /\ activeElement = Body
    /\ observed = {"C"}

\* C20 (as claimed): no deferred step, focus move or scroll correction, acts
\* on an element that is out of the document when the step runs.
C20_NoActionOnDetached ==
    (/\ last.op \in {"continuation", "scroll"}
     /\ (last.focusCalls > 0 \/ last.registered \/ last.scrolls # {})) =>
        DocumentContains(last.element)

\* C20 (amended): the virtual callback invokes the focus primitive and observe
\* only for a target that is in the document; the scroll correction invokes
\* scrollIntoView on its element whether or not it is in the document.
C20_OnlyFocusChecksDocument ==
    /\ (last.op = "continuation" /\ (last.go \/ last.registered)) =>
          DocumentContains(last.element)
    /\ last.op = "scroll" => last.scrolls = {last.element}

C20_Witness ==
    /\ last.op = "scroll"
    /\ last.scrolls = {"C"}
    /\ ~DocumentContains("C")

\* C21: when the host delivers a report for every observed element, every
\* observed element leaves the observed set, and the observed set ends up
\* empty for good.
C21_RegistrationsDrain ==
    /\ \A e \in Elements : (e \in observed) ~> (e \notin observed)
    /\ <>[](observed = {})

C21_Witness ==
    /\ ncalls = 2
    /\ pending = <<>>
    /\ last.op = "report"
    /\ last.entries = {"B"}
    /\ observed = {}
    /\ scrollPending["A"] = 1

\* C22: no step of focusSafely changes the modality, and a callback that runs
\* after the modality changed still does what a virtual call's callback does:
\* it applies the guard and, when it passes, focuses and registers target
\* without the containment test of the pointer branch.
C22_ModalityReadOnce ==
    [][/\ last'.op \in {"call", "continuation"} => modality' = modality
       /\ last'.op = "call" => (last'.modality = modality /\ last'.deferred = (modality = "virtual"))
       /\ last'.op = "continuation" =>
             /\ last'.modality = "virtual"
             /\ IF activeElement = last'.lastFocusedElement /\ DocumentContains(last'.element)
                THEN /\ activeElement' = last'.element
                     /\ last'.registered = intersectionObserver
                ELSE /\ activeElement' = activeElement
                     /\ ~last'.registered]_vars

C22_Witness ==
    /\ last.op = "continuation"
    /\ modality = "pointer"
    /\ intersectionObserver
    /\ last.lastFocusedElement = "A"
    /\ last.element = "B"
    /\ activeElement = "B"
    /\ last.registered

\* C23: two virtual calls made with the same element focused, for two other
\* elements that are in the document, and no step of other code: the callback
\* that runs first moves focus to its target, and the one that runs second
\* finds the focus changed and leaves it there.
C23_FirstContinuationWins ==
    [][(/\ last'.op = "continuation"
        /\ envSteps = 0
        /\ ncalls = 2
        /\ modality = "virtual") =>
          /\ (/\ Len(pending) = 2
              /\ pending[1].lastFocusedElement = activeElement
              /\ pending[2].lastFocusedElement = activeElement
              /\ pending[1].element # pending[2].element
              /\ activeElement \notin {pending[1].element, pending[2].element}) =>
                /\ last'.focusCalls = 1
                /\ activeElement' = last'.element
                /\ pending'[1].interim
                /\ pending'[1].lastFocusedElement # activeElement'
          /\ (Len(pending) = 1 /\ last'.interim) =>
                /\ last'.focusCalls = 0
                /\ activeElement' = activeElement
                /\ activeElement' # last'.lastFocusedElement]_vars

C23_Witness ==
    /\ envSteps = 0
    /\ ncalls = 2
    /\ modality = "virtual"
    /\ pending = <<>>
    /\ last.op = "continuation"
    /\ last.lastFocusedElement = "A"
    /\ last.element = "C"
    /\ last.interim
    /\ last.focusCalls = 0
    /\ activeElement = "B"

\* C24: scrollIntoView runs only for a correction scheduled earlier; one is
\* scheduled only by a not-intersecting report for an observed element; an
\* element becomes observed only in the step of focusSafely that has just
\* focused it; and the steps of focusSafely scroll and schedule nothing.
C24_ScrollOnlyAfterFocusAndReport ==
    [][/\ \A e \in last'.scrolls :
             /\ last'.op = "scroll"
             /\ scrollPending[e] > 0
       /\ \A e \in Elements : scrollPending'[e] > scrollPending[e] =>
             /\ last'.op = "report"
             /\ e \in observed
             /\ e \in last'.entries \ last'.visible
       /\ \A e \in observed' \ observed :
             /\ last'.op \in {"call", "continuation"}
             /\ e = last'.element
             /\ last'.registered
             /\ last'.focusCalls >= 1
             /\ activeElement' = e
       /\ last'.op \in {"call", "continuation"} =>
             /\ last'.scrolls = {}
             /\ scrollPending' = scrollPending]_vars

C24_Witness ==
    /\ last.op = "scroll"
    /\ last.scrolls = {"A"}
    /\ DocumentContains("A")
    /\ activeElement = "A"
    /\ ncalls = 1

C26_EnterAndSpace ==
    [][(/\ menuLast'.op = "keyDown"
        /\ menuEvents' = menuEvents + 1
        /\ ~menuLast'.repeat
        /\ ~item.isDisabled
        /\ ~item.isTrigger
        /\ item.hasOnClose) =>
          /\ menuLast'.key = "Enter" =>
                /\ menuLast'.closed = (item.closeOnSelect # "false")
                /\ onCloseCalls' =
                       onCloseCalls + (IF item.closeOnSelect # "false" THEN 1 ELSE 0)
          /\ menuLast'.key = " " =>
                /\ menuLast'.closed =
                       (item.selectionMode = "none" /\ item.closeOnSelect # "false")
                /\ item.selectionMode # "none" => onCloseCalls' = onCloseCalls]_vars

C26_Witness ==
    /\ menuLast.op = "keyDown"
    /\ menuLast.key = "Enter"
    /\ ~menuLast.repeat
    /\ ~item.isDisabled
    /\ ~item.isTrigger
    /\ item.hasOnClose
    /\ item.selectionMode = "multiple"
    /\ item.closeOnSelect = "undefined"
    /\ menuLast.closed
    /\ menuEvents = 2
    /\ onCloseCalls = 1

\* C27: a keydown with repeat set calls no handler of the menu, whatever the
\* key and the item, and continues propagation.
C27_RepeatIgnored ==
    [][(/\ menuLast'.op = "keyDown"
        /\ menuEvents' = menuEvents + 1
        /\ menuLast'.repeat) =>
          /\ ~menuLast'.closed
          /\ menuLast'.propagated
          /\ UNCHANGED <<onCloseCalls, onActionCalls, pressed>>]_vars

C27_Witness ==
    /\ menuLast.op = "keyDown"
    /\ menuLast.key = "Enter"
    /\ menuLast.repeat
    /\ menuLast.propagated
    /\ ~item.isDisabled
    /\ ~item.isTrigger
    /\ item.hasOnClose
    /\ item.closeOnSelect = "true"
    /\ menuEvents = 3
    /\ onCloseCalls = 0

\* C28: when the press up of a press on an enabled, non-trigger item with an
\* onAction handler has run, onAction was called exactly once since the press
\* started: by the press start for pointer type keyboard, by the press up for
\* every other pointer type.
C28_OneActionPerPress ==
    [][(/\ menuLast'.op = "pressUp"
        /\ menuEvents' = menuEvents + 1
        /\ ~item.isDisabled
        /\ ~item.isTrigger
        /\ item.hasOnAction) =>
          /\ menuLast'.pointerType = pressed
          /\ onActionCalls' = pressStartCalls + 1
          /\ IF pressed = "keyboard"
             THEN onActionCalls = pressStartCalls + 1 /\ ~menuLast'.acted
             ELSE onActionCalls = pressStartCalls /\ menuLast'.acted]_vars

C28_Witness ==
    /\ menuLast.op = "pressUp"
    /\ menuLast.pointerType = "keyboard"
    /\ ~item.isDisabled
    /\ ~item.isTrigger
    /\ item.hasOnAction
    /\ menuEvents = 3
    /\ pressStartCalls = 0
    /\ onActionCalls = 1

\* C29: for an item that is a submenu trigger the menu's onAction and onClose
\* handlers have never been called, and aria-checked is not exposed.
C29_TriggerCallsNothing ==
    item.isTrigger =>
        /\ onActionCalls = 0
        /\ onCloseCalls = 0
        /\ ~AriaCheckedExposed(item)

C29_Witness ==
    /\ item.isTrigger
    /\ ~item.isDisabled
    /\ ~item.isExpanded
    /\ item.hasOnClose
    /\ item.hasOnAction
    /\ item.selectionMode = "multiple"
    /\ item.closeOnSelect = "true"
    /\ menuEvents = 3
    /\ menuLast.op = "pressUp"
    /\ menuLast.pointerType = "mouse"

\* C30: for 'Create a new library' the success message is printed and the
\* process has exited only when the installation started by the CLI has
\* finished; for 'Add components' no package.json is copied and no
\* installation is started.
C30_SuccessAfterInstall ==
    /\ (/\ action = "Create a new library"
        /\ \/ exited
           \/ \E i \in 1..Len(printed) : printed[i] = "success") =>
          install = "finished"
    /\ action = "Add components" =>
          (~packageJsonCopied /\ install = "none")

====
